---- MODULE Spec2Model ----
(***************************************************************************)
(* Model of the Garmin -> Notion sync scripts: daily-steps.py,             *)
(* sleep_data.py and the scheduled workflow that runs them.                *)
(*                                                                         *)
(* A behaviour runs one program (entry): the steps script or the sleep     *)
(* script, re-run a bounded number of times against the same Notion        *)
(* database, or one run of the workflow's steps.                           *)
(***************************************************************************)
EXTENDS Integers, Sequences, FiniteSets, TLC

VARIABLES
    entry,          \* program this behaviour runs: "steps", "sleep", "workflow"
    pc,             \* position in the running program
    env,            \* which environment settings are set
    today,          \* the calendar day of the run (date.today())
    run,            \* number of the current run of the script
    schema,         \* the Notion database's properties: <<[name, type]>>
    pages,          \* the Notion database's pages: <<[id, props]>>
    daily_steps,    \* daily-steps.py main: the fetched list
    idx,            \* daily-steps.py main: position of the for loop
    db_props,       \* sleep_data.py main: db_props (read once per run)
    daily,          \* sleep_data.py main: dailySleepDTO of the fetch
    hrv,            \* sleep_data.py main: the HRV payload
    props,          \* sleep_data.py main: the mapped properties
    garmin,         \* Garmin's sleep and HRV data for the night, once fetched
    calls,          \* service calls of the current run: <<[op, props]>>
    trace,          \* one entry per per-date sync that was carried out
    ran,            \* workflow: the scripts executed, with exit status
    exit_status     \* -1 while running, else the process exit status

vars == <<entry, pc, env, today, run, schema, pages, daily_steps, idx,
          db_props, daily, hrv, props, garmin, calls, trace, ran, exit_status>>

(***************************************************************************)
(* Bounds                                                                  *)
(***************************************************************************)
MaxRuns == 2
MaxDay == 2

(***************************************************************************)
(* Python values.  A str is its text up to the seconds (s) and, in n,      *)
(* whether a fractional part (2) and a trailing "Z" (1) follow; a float    *)
(* is kept in hundredths; a list is its length and its first text.         *)
(***************************************************************************)
None == [t |-> "None", n |-> 0, s |-> ""]
PyInt(i) == [t |-> "int", n |-> i, s |-> ""]
PyFloat(c) == [t |-> "float", n |-> c, s |-> ""]
PyStr(x) == [t |-> "str", n |-> 0, s |-> x]
Stamp(x, suffix) == [t |-> "str", n |-> suffix, s |-> x]
DateStr(d) == [t |-> "date-str", n |-> d, s |-> ""]
RichText(x) == [t |-> "list", n |-> 1, s |-> x]
EmptyList == [t |-> "list", n |-> 0, s |-> ""]

IsNum(v) == v.t \in {"int", "float"}
Cents(v) == IF v.t = "int" THEN 100 * v.n ELSE v.n

\* Python ==: numbers compare by value across int and float, anything
\* else by type and content (a list never equals a str).
PyEq(a, b) == IF IsNum(a) /\ IsNum(b) THEN Cents(a) = Cents(b) ELSE a = b

\* Python truthiness, as used by `or` and `if not`.
Truthy(v) == CASE v.t = "None" -> FALSE
               [] IsNum(v) -> v.n # 0
               [] v.t = "str" -> ~(v.s = "" /\ v.n = 0)
               [] v.t = "list" -> v.n > 0
               [] OTHER -> TRUE

\* `a if a is not None else b` in place of `a or b`
PyOrNoneOnly(a, b) == IF a # None THEN a ELSE b

\* a or b
PyOr(a, b) == IF Truthy(a) THEN a ELSE b

\* dict.get(k)
Get(d, k) == IF k \in DOMAIN d THEN d[k] ELSE None

EmptyDict == <<>>

\* round() of num/den to an integer (ties to even)
RoundHalfEven(num, den) ==
    LET q == num \div den
        r == num % den
    IN  IF 2 * r < den THEN q
        ELSE IF 2 * r > den THEN q + 1
        ELSE IF q % 2 = 0 THEN q ELSE q + 1

(***************************************************************************)
(* The Notion database (destination).                                      *)
(***************************************************************************)
Cols(sch) == {sch[i].name : i \in 1..Len(sch)}

EmptyOf(type) == IF type = "title" THEN EmptyList ELSE None

\* What Notion returns as a page's properties: one value per property of
\* the database, empty where the page never got one.
View(page) ==
    [c \in Cols(schema) |->
        IF c \in DOMAIN page.props THEN page.props[c]
        ELSE EmptyOf(schema[CHOOSE i \in 1..Len(schema) : schema[i].name = c].type)]

\* Notion is reachable with the token and database id of this script.
Reachable(db_setting) == env["NOTION_TOKEN"] /\ env[db_setting]

\* Notion rejects a write that names a property the database lacks.
Accepts(payload) == DOMAIN payload \subseteq Cols(schema)

NewId == Len(pages) + 1

Call(op, payload) == [op |-> op, props |-> payload]

(***************************************************************************)
(* daily-steps.py                                                          *)
(***************************************************************************)
StepsSchemaFull ==
    << [name |-> "Activity Type", type |-> "title"],
       [name |-> "Date", type |-> "date"],
       [name |-> "Total Steps", type |-> "number"],
       [name |-> "Step Goal", type |-> "number"],
       [name |-> "Total Distance (km)", type |-> "number"] >>

StepsSchemaNoGoal == SelectSeq(StepsSchemaFull, LAMBDA p : p.name # "Step Goal")

\* A page for day 1 that is in the database before the first run.
EarlierStepsPage(sch) ==
    [id |-> 1,
     props |-> [c \in Cols(sch) |->
        CASE c = "Activity Type" -> RichText("Walking")
          [] c = "Date" -> DateStr(1)
          [] c = "Total Steps" -> PyInt(8000)
          [] c = "Step Goal" -> PyInt(10000)
          [] OTHER -> PyFloat(644)]]

\* The records Garmin may report for a day.
StepRecords(d) ==
    { [calendarDate |-> DateStr(d), totalSteps |-> PyInt(ts),
       stepGoal |-> PyInt(10000), totalDistance |-> td] :
         ts \in {8000, 8200}, td \in {None, PyInt(0), PyInt(6437)} }

\* round(total_distance / 1000, 2), in hundredths of a km.  The distances
\* drawn are whole metres that are no tie of the rounding.
KmRounded(total_distance) == PyFloat(RoundHalfEven(total_distance.n, 10))

DistanceKm(steps) ==
    LET total_distance == Get(steps, "totalDistance")
    IN  KmRounded(IF total_distance = None THEN PyInt(0) ELSE total_distance)

\* daily_steps_exist: the query's results
WalkingOn(activity_date) ==
    SelectSeq(pages, LAMBDA p :
        /\ View(p)["Date"] = activity_date
        /\ View(p)["Activity Type"].t = "list"
        /\ View(p)["Activity Type"].s = "Walking")

StepsQueryOk == /\ Reachable("NOTION_STEPS_DB_ID")
                /\ {"Date", "Activity Type"} \subseteq Cols(schema)

\* steps_need_update: the `or` chain, left to right; a property the page
\* does not have raises KeyError when the chain gets to it.
StepsCompared(new_steps) ==
    << <<"Total Steps", Get(new_steps, "totalSteps")>>,
       <<"Step Goal", Get(new_steps, "stepGoal")>>,
       <<"Total Distance (km)", Get(new_steps, "totalDistance")>>,
       <<"Activity Type", PyStr("Walking")>> >>

RECURSIVE OrChain(_, _, _)
OrChain(existing_props, cmp, i) ==
    IF i > Len(cmp) THEN "False"
    ELSE IF cmp[i][1] \notin DOMAIN existing_props THEN "KeyError"
    ELSE IF ~PyEq(existing_props[cmp[i][1]], cmp[i][2]) THEN "True"
    ELSE OrChain(existing_props, cmp, i + 1)

steps_need_update(existing_props, new_steps) ==
    OrChain(existing_props, StepsCompared(new_steps), 1)

\* An update that leaves out the fields whose stored value is the new one
update_changed_fields(existing_props, new_steps) ==
    LET full == [c \in {"Activity Type", "Total Steps", "Step Goal", "Total Distance (km)"} |->
                    CASE c = "Activity Type" -> RichText("Walking")
                      [] c = "Total Steps" -> Get(new_steps, "totalSteps")
                      [] c = "Step Goal" -> Get(new_steps, "stepGoal")
                      [] OTHER -> DistanceKm(new_steps)]
    IN  [c \in {k \in DOMAIN full : ~PyEq(Get(existing_props, k), full[k])} |-> full[c]]

\* update_daily_steps: the properties of the pages.update call
update_daily_steps(existing_props, new_steps) ==
    [c \in {"Activity Type", "Total Steps", "Step Goal", "Total Distance (km)"} |->
        CASE c = "Activity Type" -> RichText("Walking")
          [] c = "Total Steps" -> Get(new_steps, "totalSteps")
          [] c = "Step Goal" -> Get(new_steps, "stepGoal")
          [] OTHER -> DistanceKm(new_steps)]

\* create_daily_steps: the properties of the pages.create call
create_daily_steps(steps) ==
    [c \in {"Activity Type", "Date", "Total Steps", "Step Goal", "Total Distance (km)"} |->
        CASE c = "Activity Type" -> RichText("Walking")
          [] c = "Date" -> Get(steps, "calendarDate")
          [] c = "Total Steps" -> Get(steps, "totalSteps")
          [] c = "Step Goal" -> Get(steps, "stepGoal")
          [] OTHER -> DistanceKm(steps)]

Entry(d, src, outcome, need, before, payload) ==
    [run |-> run, date |-> d, src |-> src, outcome |-> outcome, need |-> need,
     before |-> before, payload |-> payload]

Exit(status) == /\ pc' = "done"
                /\ exit_status' = status

\* Garmin(email, password).login()
LoginOutcomes ==
    IF env["GARMIN_EMAIL"] /\ env["GARMIN_PASSWORD"] THEN {"ok", "error"} ELSE {"error"}

StepsLogin ==
    /\ entry = "steps" /\ pc = "start"
    /\ calls' = Append(calls, Call("garmin.login", EmptyDict))
    /\ \E outcome \in LoginOutcomes :
          IF outcome = "ok" THEN pc' = "fetch" /\ UNCHANGED exit_status
          ELSE Exit(1)
    /\ UNCHANGED <<entry, env, today, run, schema, pages, daily_steps, idx,
                   db_props, daily, hrv, props, trace, ran, garmin>>

\* get_all_daily_steps: one request, for yesterday
StepsFetch ==
    /\ entry = "steps" /\ pc = "fetch"
    /\ calls' = Append(calls, Call("garmin.get_daily_steps", EmptyDict))
    /\ \/ /\ \E rec \in StepRecords(today - 1) : daily_steps' = <<rec>>
          /\ idx' = 1
          /\ pc' = "loop"
          /\ UNCHANGED exit_status
       \/ /\ Exit(1)
          /\ UNCHANGED <<daily_steps, idx>>
    /\ UNCHANGED <<entry, env, today, run, schema, pages,
                   db_props, daily, hrv, props, trace, ran, garmin>>

\* The body of main's for loop, for the record at idx.  failure names the
\* request that Notion fails on its own account, if any.
StepsSyncRecord ==
    /\ entry = "steps" /\ pc = "loop" /\ idx <= Len(daily_steps)
    /\ \E failure \in {"none", "query", "write"} :
        LET steps == daily_steps[idx]
            steps_date == Get(steps, "calendarDate")
            results == WalkingOn(steps_date)
            found == Len(results) > 0
            existing_props == IF found THEN View(results[1]) ELSE EmptyDict
            need == IF found THEN steps_need_update(existing_props, steps) ELSE "n/a"
            payload == IF found THEN update_daily_steps(existing_props, steps)
                       ELSE create_daily_steps(steps)
            query == Call("databases.query", EmptyDict)
            Failed(cs) == /\ calls' = calls \o cs
                          /\ trace' = Append(trace, Entry(steps_date, steps, "Failed",
                                                          need, existing_props, EmptyDict))
                          /\ Exit(1)
                          /\ UNCHANGED <<pages, idx>>
        IN  IF failure = "query" \/ ~StepsQueryOk THEN
                /\ calls' = Append(calls, query)
                /\ trace' = Append(trace, Entry(steps_date, steps, "Failed", "n/a",
                                                EmptyDict, EmptyDict))
                /\ Exit(1)
                /\ UNCHANGED <<pages, idx>>
            ELSE IF found /\ need = "KeyError" THEN
                Failed(<<query>>)
            ELSE IF found /\ need = "False" THEN
                /\ failure = "none"
                /\ calls' = Append(calls, query)
                /\ trace' = Append(trace, Entry(steps_date, steps, "Unchanged",
                                                need, existing_props, EmptyDict))
                /\ idx' = idx + 1
                /\ UNCHANGED <<pages, pc, exit_status>>
            ELSE IF found THEN
                IF failure = "write" \/ ~Accepts(payload) THEN
                    Failed(<<query, Call("pages.update", payload)>>)
                ELSE
                    /\ calls' = calls \o <<query, Call("pages.update", payload)>>
                    /\ pages' = [i \in 1..Len(pages) |->
                                    IF pages[i].id = results[1].id
                                    THEN [pages[i] EXCEPT !.props = payload @@ @]
                                    ELSE pages[i]]
                    /\ trace' = Append(trace, Entry(steps_date, steps, "Updated",
                                                    need, existing_props, payload))
                    /\ idx' = idx + 1
                    /\ UNCHANGED <<pc, exit_status>>
            ELSE
                IF failure = "write" \/ ~Accepts(payload) THEN
                    Failed(<<query, Call("pages.create", payload)>>)
                ELSE
                    /\ calls' = calls \o <<query, Call("pages.create", payload)>>
                    /\ pages' = Append(pages, [id |-> NewId, props |-> payload])
                    /\ trace' = Append(trace, Entry(steps_date, steps, "Created",
                                                    need, existing_props, payload))
                    /\ idx' = idx + 1
                    /\ UNCHANGED <<pc, exit_status>>
    /\ UNCHANGED <<entry, env, today, run, schema, daily_steps,
                   db_props, daily, hrv, props, ran, garmin>>

\* main returns after the last record
StepsFinish ==
    /\ entry = "steps" /\ pc = "loop" /\ idx > Len(daily_steps)
    /\ Exit(0)
    /\ UNCHANGED <<entry, env, today, run, schema, pages, daily_steps, idx,
                   db_props, daily, hrv, props, calls, trace, ran, garmin>>

\* The schedule starts the script again: the same day or, for the steps
\* script, the next one (the sleep script is re-run for the same night).
NextRun ==
    /\ entry \in {"steps", "sleep"} /\ pc = "done" /\ run < MaxRuns
    /\ run' = run + 1
    /\ \E t \in {today, today + 1} :
          /\ t <= MaxDay + 1
          /\ t = today \/ entry = "steps"
          /\ today' = t
    /\ pc' = "start"
    /\ exit_status' = -1
    /\ calls' = <<>>
    /\ daily_steps' = <<>> /\ idx' = 0
    /\ db_props' = <<>> /\ daily' = EmptyDict /\ hrv' = EmptyDict /\ props' = EmptyDict
    /\ UNCHANGED <<entry, env, schema, pages, trace, ran, garmin>>

Settings == {"GARMIN_EMAIL", "GARMIN_PASSWORD", "NOTION_TOKEN",
             "NOTION_STEPS_DB_ID", "NOTION_SLEEP_DB_ID",
             "CREATE_MISSING_SLEEP_PROPERTIES"}

(***************************************************************************)
(* sleep_data.py                                                           *)
(***************************************************************************)
\* standard_props of main, in the order of the dict
standard_props ==
    << [name |-> "Date", type |-> "date"],
       [name |-> "Score", type |-> "number"],
       [name |-> "Efficiency (%)", type |-> "number"],
       [name |-> "Total (min)", type |-> "number"],
       [name |-> "Deep (min)", type |-> "number"],
       [name |-> "REM (min)", type |-> "number"],
       [name |-> "Light (min)", type |-> "number"],
       [name |-> "Awake (min)", type |-> "number"],
       [name |-> "Bedtime", type |-> "date"],
       [name |-> "Wake time", type |-> "date"],
       [name |-> "HRV (ms)", type |-> "number"] >>

\* The Sleep databases the script is run against.
SleepSchemas ==
    { <<[name |-> "Name", type |-> "title"]>> \o standard_props,
      << [name |-> "Name", type |-> "title"], [name |-> "Date", type |-> "date"] >>,
      << [name |-> "Night", type |-> "title"], [name |-> "Day", type |-> "date"],
         [name |-> "Total (min)", type |-> "number"], [name |-> "Score", type |-> "number"] >>,
      << [name |-> "Name", type |-> "title"], [name |-> "Total (min)", type |-> "number"] >>,
      << [name |-> "Name", type |-> "title"], [name |-> "Date", type |-> "rich_text"],
         [name |-> "When", type |-> "date"], [name |-> "Bedtime", type |-> "date"] >> }

RECURSIVE FirstOfType(_, _, _)
FirstOfType(p, type, i) ==
    IF i > Len(p) THEN ""
    ELSE IF p[i].type = type THEN p[i].name
    ELSE FirstOfType(p, type, i + 1)

\* find_title_prop
find_title_prop(p) ==
    IF FirstOfType(p, "title", 1) # "" THEN FirstOfType(p, "title", 1) ELSE "Name"

\* A find_date_prop that falls back to "Date" as find_title_prop does to "Name"
find_date_prop_or_default(p) ==
    IF FirstOfType(p, "date", 1) = "" THEN "Date"
    ELSE IF \E i \in 1..Len(p) : p[i].name = "Date" /\ p[i].type = "date" THEN "Date"
    ELSE FirstOfType(p, "date", 1)

\* find_date_prop; "" stands for None
find_date_prop(p) ==
    IF \E i \in 1..Len(p) : p[i].name = "Date" /\ p[i].type = "date" THEN "Date"
    ELSE FirstOfType(p, "date", 1)

\* databases.update(db_id, properties=standard_props): the properties the
\* database lacks are added, the ones it has under another type are retyped.
Provisioned(sch) ==
    [i \in 1..Len(sch) |->
        IF \E j \in 1..Len(standard_props) : standard_props[j].name = sch[i].name
        THEN CHOOSE q \in {standard_props[j] : j \in 1..Len(standard_props)} :
                 q.name = sch[i].name
        ELSE sch[i]]
    \o SelectSeq(standard_props, LAMBDA q : q.name \notin Cols(sch))

\* A to_minutes that passes a missing duration on as None
to_minutes_or_none(seconds) ==
    IF seconds = None THEN None ELSE PyInt(RoundHalfEven(seconds.n, 60))

\* to_minutes
to_minutes(seconds) == PyInt(RoundHalfEven(PyOr(seconds, PyInt(0)).n, 60))

\* to_iso_z: strip trailing "Z"s, cut at the first ".", append "Z"
to_iso_z(dt_str) == IF ~Truthy(dt_str) THEN None ELSE Stamp(dt_str.s, 1)

\* float(x)
float(v) == PyFloat(Cents(v))

\* The payloads Garmin may return as dailySleepDTO.
Opt(k, vals) == {EmptyDict} \cup {k :> v : v \in vals}

AllOrNone(d) == {EmptyDict, d}

DailyPayloads ==
    { a @@ b @@ c @@ d @@ e :
        a \in Opt("sleepTimeSeconds", {PyInt(0), PyInt(90)}),
        b \in Opt("durationInSeconds", {PyInt(28800)}),
        c \in Opt("sleepStartTimestampGMT", {PyStr(""), Stamp("2024-03-01T23:10:00", 2)}),
        d \in Opt("startTimeGMT", {Stamp("2024-03-01T23:05:00", 1)}),
        e \in AllOrNone([deepSleepSeconds |-> PyInt(5430),
                         remSleepSeconds |-> PyInt(6000),
                         lightSleepSeconds |-> PyInt(14000),
                         awakeSleepSeconds |-> PyInt(150),
                         sleepScore |-> PyInt(82),
                         sleepEfficiency |-> PyInt(91),
                         sleepEndTimestampGMT |-> Stamp("2024-03-02T07:00:00", 0),
                         endTimeGMT |-> Stamp("2024-03-02T07:02:00", 3)]) }

\* The payloads Garmin may return for HRV ({} also stands for a failed or
\* non-dict response).
HrvPayloads ==
    { [has_summary |-> FALSE, summary |-> EmptyDict, flat |-> EmptyDict],
      [has_summary |-> TRUE, summary |-> [lastNightAvg |-> PyInt(42)],
       flat |-> [avg |-> PyInt(41)]],
      [has_summary |-> FALSE, summary |-> EmptyDict,
       flat |-> [avg |-> PyStr("n/a"), hrvValue |-> PyInt(40)]] }

RECURSIVE FirstNumeric(_, _, _)
FirstNumeric(d, keys, i) ==
    IF i > Len(keys) THEN None
    ELSE IF IsNum(Get(d, keys[i])) THEN Get(d, keys[i])
    ELSE FirstNumeric(d, keys, i + 1)

\* hrv_nightly of main
hrv_nightly(h) ==
    IF h.has_summary THEN FirstNumeric(h.summary, <<"lastNightAvg", "avg", "average">>, 1)
    ELSE FirstNumeric(h.flat, <<"lastNightAvg", "avg", "hrvValue", "average">>, 1)

total_min(dly) ==
    to_minutes(PyOr(Get(dly, "sleepTimeSeconds"), Get(dly, "durationInSeconds")))

bedtime_iso(dly) ==
    to_iso_z(PyOr(Get(dly, "sleepStartTimestampGMT"), Get(dly, "startTimeGMT")))

waketime_iso(dly) ==
    to_iso_z(PyOr(Get(dly, "sleepEndTimestampGMT"), Get(dly, "endTimeGMT")))

\* props[k] = v when cond
Assign(p, cond, k, v) == IF cond THEN (k :> v) @@ p ELSE p

has_prop(p, name) == name \in Cols(p)

\* props of main: the date, then one assignment per metric, in order
SleepProps(p, date_prop, target, dly, h) ==
    LET p0 == date_prop :> DateStr(target)
        p1 == Assign(p0, has_prop(p, "Total (min)"), "Total (min)", total_min(dly))
        p2 == Assign(p1, has_prop(p, "Deep (min)"), "Deep (min)",
                     to_minutes(Get(dly, "deepSleepSeconds")))
        p3 == Assign(p2, has_prop(p, "REM (min)"), "REM (min)",
                     to_minutes(Get(dly, "remSleepSeconds")))
        p4 == Assign(p3, has_prop(p, "Light (min)"), "Light (min)",
                     to_minutes(Get(dly, "lightSleepSeconds")))
        p5 == Assign(p4, has_prop(p, "Awake (min)"), "Awake (min)",
                     to_minutes(Get(dly, "awakeSleepSeconds")))
        p6 == Assign(p5, has_prop(p, "Score") /\ Get(dly, "sleepScore") # None,
                     "Score", float(Get(dly, "sleepScore")))
        p7 == Assign(p6, has_prop(p, "Efficiency (%)") /\ Get(dly, "sleepEfficiency") # None,
                     "Efficiency (%)", float(Get(dly, "sleepEfficiency")))
        p8 == Assign(p7, has_prop(p, "Bedtime") /\ Truthy(bedtime_iso(dly)),
                     "Bedtime", bedtime_iso(dly))
        p9 == Assign(p8, has_prop(p, "Wake time") /\ Truthy(waketime_iso(dly)),
                     "Wake time", waketime_iso(dly))
    IN  Assign(p9, has_prop(p, "HRV (ms)") /\ hrv_nightly(h) # None,
               "HRV (ms)", float(hrv_nightly(h)))

\* The properties of the pages.create call: {title_prop: title} | props
SleepCreateProps(title_prop, target, p) ==
    p @@ (title_prop :> RichText("Sleep " \o ToString(target)))

\* query_by_date: the query's results
PagesOn(date_prop, date_iso) ==
    SelectSeq(pages, LAMBDA q : View(q)[date_prop] = DateStr(date_iso))

\* A page for day 1 that is in the database before the first run.
EarlierSleepPage(sch) ==
    [id |-> 1,
     props |-> (find_title_prop(sch) :> RichText("Sleep 1"))
               @@ (find_date_prop(sch) :> DateStr(1))]

\* The env guards at module level
SleepGuards ==
    /\ entry = "sleep" /\ pc = "start"
    /\ IF ~env["NOTION_TOKEN"] THEN Exit(1)
       ELSE IF ~env["NOTION_SLEEP_DB_ID"] THEN Exit(1)
       ELSE pc' = "inspect" /\ UNCHANGED exit_status
    /\ UNCHANGED <<entry, env, today, run, schema, pages, daily_steps, idx,
                   db_props, daily, hrv, props, calls, trace, ran, garmin>>

\* main: inspect the DB schema
SleepInspect ==
    /\ entry = "sleep" /\ pc = "inspect"
    /\ calls' = Append(calls, Call("databases.retrieve", EmptyDict))
    /\ \/ /\ db_props' = schema
          /\ IF find_date_prop(schema) = "" THEN Exit(1)
             ELSE pc' = "ensure" /\ UNCHANGED exit_status
       \/ /\ Exit(1)
          /\ UNCHANGED db_props
    /\ UNCHANGED <<entry, env, today, run, schema, pages, daily_steps, idx,
                   daily, hrv, props, trace, ran, garmin>>

\* main: ensure_sleep_schema(SLEEP_DB_ID, standard_props)
SleepEnsure ==
    /\ entry = "sleep" /\ pc = "ensure"
    /\ IF ~env["CREATE_MISSING_SLEEP_PROPERTIES"] THEN
            /\ pc' = "login"
            /\ UNCHANGED <<schema, calls, exit_status>>
       ELSE /\ calls' = Append(calls, Call("databases.update",
                                  [c \in Cols(standard_props) |-> None]))
            /\ \/ /\ schema' = Provisioned(schema)
                  /\ pc' = "login"
                  /\ UNCHANGED exit_status
               \/ /\ Exit(1)
                  /\ UNCHANGED schema
    /\ UNCHANGED <<entry, env, today, run, pages, daily_steps, idx,
                   db_props, daily, hrv, props, trace, ran, garmin>>

\* main: Garmin(...).login()
SleepLogin ==
    /\ entry = "sleep" /\ pc = "login"
    /\ calls' = Append(calls, Call("garmin.login", EmptyDict))
    /\ \E outcome \in LoginOutcomes :
          IF outcome = "ok" THEN pc' = "fetch" /\ UNCHANGED exit_status
          ELSE Exit(1)
    /\ UNCHANGED <<entry, env, today, run, schema, pages, daily_steps, idx,
                   db_props, daily, hrv, props, trace, ran, garmin>>

\* main: fetch sleep and HRV for the target date, map them to props.
\* Garmin's data for a night is settled the first time it is fetched.
SleepFetch ==
    /\ entry = "sleep" /\ pc = "fetch"
    /\ calls' = calls \o << Call("garmin.get_sleep_data", EmptyDict),
                            Call("garmin.get_hrv_data", EmptyDict) >>
    /\ \/ /\ \E dly \in DailyPayloads, h \in HrvPayloads :
                /\ garmin = EmptyDict \/ garmin = [daily |-> dly, hrv |-> h]
                /\ garmin' = [daily |-> dly, hrv |-> h]
                /\ daily' = dly
                /\ hrv' = h
                /\ props' = SleepProps(db_props, find_date_prop(db_props),
                                       today - 1, dly, h)
          /\ pc' = "upsert"
          /\ UNCHANGED exit_status
       \/ /\ Exit(1)
          /\ UNCHANGED <<daily, hrv, props, garmin>>
    /\ UNCHANGED <<entry, env, today, run, schema, pages, daily_steps, idx,
                   db_props, trace, ran>>

\* main: upsert (update if exists, otherwise create)
SleepUpsert ==
    /\ entry = "sleep" /\ pc = "upsert"
    /\ \E failure \in {"none", "query", "write"} :
        LET date_prop == find_date_prop(db_props)
            title_prop == find_title_prop(db_props)
            target == today - 1
            results == PagesOn(date_prop, target)
            found == Len(results) > 0
            before == IF found THEN View(results[1]) ELSE EmptyDict
            payload == IF found THEN props
                       ELSE SleepCreateProps(title_prop, target, props)
            op == IF found THEN "pages.update" ELSE "pages.create"
            query == Call("databases.query", EmptyDict)
        IN  IF failure = "query" THEN
                /\ calls' = Append(calls, query)
                /\ trace' = Append(trace, Entry(target, daily, "Failed", "n/a",
                                                EmptyDict, EmptyDict))
                /\ Exit(1)
                /\ UNCHANGED pages
            ELSE IF failure = "write" \/ ~Accepts(payload) THEN
                /\ calls' = calls \o <<query, Call(op, payload)>>
                /\ trace' = Append(trace, Entry(target, daily, "Failed", "n/a",
                                                before, EmptyDict))
                /\ Exit(1)
                /\ UNCHANGED pages
            ELSE
                /\ calls' = calls \o <<query, Call(op, payload)>>
                /\ pages' = IF found
                            THEN [i \in 1..Len(pages) |->
                                    IF pages[i].id = results[1].id
                                    THEN [pages[i] EXCEPT !.props = payload @@ @]
                                    ELSE pages[i]]
                            ELSE Append(pages, [id |-> NewId, props |-> payload])
                /\ trace' = Append(trace, Entry(target, daily,
                                                IF found THEN "Updated" ELSE "Created",
                                                "n/a", before, payload))
                /\ Exit(0)
    /\ UNCHANGED <<entry, env, today, run, schema, daily_steps, idx,
                   db_props, daily, hrv, props, ran, garmin>>

SleepInit ==
    /\ entry = "sleep"
    /\ pc = "start"
    /\ env \in {e \in [Settings -> BOOLEAN] : e["NOTION_STEPS_DB_ID"]}
    /\ today = 2
    /\ run = 1
    /\ schema \in SleepSchemas
    /\ pages \in {<<>>} \cup {<<EarlierSleepPage(schema)>> : x \in {find_date_prop(schema)} \ {""}}
    /\ daily_steps = <<>> /\ idx = 0
    /\ db_props = <<>> /\ daily = EmptyDict /\ hrv = EmptyDict /\ props = EmptyDict
    /\ garmin = EmptyDict
    /\ calls = <<>>
    /\ trace = <<>>
    /\ ran = <<>>
    /\ exit_status = -1

SleepNext == SleepGuards \/ SleepInspect \/ SleepEnsure \/ SleepLogin
             \/ SleepFetch \/ SleepUpsert

(***************************************************************************)
(* The scheduled workflow (job "sync")                                     *)
(***************************************************************************)
\* The commands of the step "Run sync scripts", in order
Scripts == << "garmin-activities.py", "personal-records.py", "daily-steps.py",
              "sleep_data.py", "health_metrics_all.py" >>

\* The exit statuses a script may end with under the job's settings.
ScriptStatuses(script) ==
    CASE script = "daily-steps.py" ->
            IF \A k \in {"GARMIN_EMAIL", "GARMIN_PASSWORD", "NOTION_TOKEN",
                         "NOTION_STEPS_DB_ID"} : env[k]
            THEN {0, 1} ELSE {1}
      [] script = "sleep_data.py" ->
            IF \A k \in {"GARMIN_EMAIL", "GARMIN_PASSWORD", "NOTION_TOKEN",
                         "NOTION_SLEEP_DB_ID"} : env[k]
            THEN {0, 1} ELSE {1}
      [] OTHER -> {0, 1}

\* Step "Validate required secrets": each line is `: "<secret>" || ...`,
\* and `:` returns 0 whatever its argument, so no line exits.
ValidateStatus(e) == 0

WfValidate ==
    /\ entry = "workflow" /\ pc = "start"
    /\ IF ValidateStatus(env) # 0 THEN Exit(ValidateStatus(env)) /\ UNCHANGED idx
       ELSE pc' = "scripts" /\ idx' = 1 /\ UNCHANGED exit_status
    /\ UNCHANGED <<entry, env, today, run, schema, pages, daily_steps,
                   db_props, daily, hrv, props, garmin, calls, trace, ran>>

\* Step "Run sync scripts", under `set -euo pipefail`: the next command
\* runs; a non-zero status ends the step with that status.
WfRunScript ==
    /\ entry = "workflow" /\ pc = "scripts" /\ idx <= Len(Scripts)
    /\ \E status \in ScriptStatuses(Scripts[idx]) :
          /\ ran' = Append(ran, [script |-> Scripts[idx], status |-> status])
          /\ IF status # 0 THEN Exit(status) /\ UNCHANGED idx
             ELSE idx' = idx + 1 /\ UNCHANGED <<pc, exit_status>>
    /\ UNCHANGED <<entry, env, today, run, schema, pages, daily_steps,
                   db_props, daily, hrv, props, garmin, calls, trace>>

WfFinish ==
    /\ entry = "workflow" /\ pc = "scripts" /\ idx > Len(Scripts)
    /\ Exit(0)
    /\ UNCHANGED <<entry, env, today, run, schema, pages, daily_steps, idx,
                   db_props, daily, hrv, props, garmin, calls, trace, ran>>

WorkflowInit ==
    /\ entry = "workflow"
    /\ pc = "start"
    /\ env \in {e \in [Settings -> BOOLEAN] : ~e["CREATE_MISSING_SLEEP_PROPERTIES"]}
    /\ today = 2
    /\ run = 1
    /\ schema = <<>>
    /\ pages = <<>>
    /\ daily_steps = <<>> /\ idx = 0
    /\ db_props = <<>> /\ daily = EmptyDict /\ hrv = EmptyDict /\ props = EmptyDict
    /\ garmin = EmptyDict
    /\ calls = <<>>
    /\ trace = <<>>
    /\ ran = <<>>
    /\ exit_status = -1

WorkflowNext == WfValidate \/ WfRunScript \/ WfFinish

StepsInit ==
    /\ entry = "steps"
    /\ pc = "start"
    /\ env \in {e \in [Settings -> BOOLEAN] :
                  e["NOTION_SLEEP_DB_ID"] /\ ~e["CREATE_MISSING_SLEEP_PROPERTIES"]}
    /\ today = 2
    /\ run = 1
    /\ schema \in {StepsSchemaFull, StepsSchemaNoGoal}
    /\ pages \in {<<>>, <<EarlierStepsPage(schema)>>}
    /\ daily_steps = <<>> /\ idx = 0
    /\ db_props = <<>> /\ daily = EmptyDict /\ hrv = EmptyDict /\ props = EmptyDict
    /\ garmin = EmptyDict
    /\ calls = <<>>
    /\ trace = <<>>
    /\ ran = <<>>
    /\ exit_status = -1

StepsNext == StepsLogin \/ StepsFetch \/ StepsSyncRecord \/ StepsFinish

Init == StepsInit \/ SleepInit \/ WorkflowInit

Next == StepsNext \/ SleepNext \/ WorkflowNext \/ NextRun

Spec == Init /\ [][Next]_vars

(***************************************************************************)
(* Properties                                                              *)
(***************************************************************************)
StepsUpdateCols == {"Activity Type", "Total Steps", "Step Goal", "Total Distance (km)"}
MinuteCols == {"Total (min)", "Deep (min)", "REM (min)", "Light (min)", "Awake (min)"}
IsWrite(c) == c.op \in {"pages.create", "pages.update"}
Mapped == entry = "sleep" /\ DOMAIN props # {}

\* C1: Idempotence.  When a sync that created the record of a date is
\* followed by a sync of the same date with the same source data (and no
\* service failure), the second one is Unchanged and writes nothing.
C1_SecondSyncUnchanged ==
    \A i \in 1..(Len(trace) - 1) :
        ( /\ trace[i].outcome = "Created"
          /\ trace[i + 1].date = trace[i].date
          /\ trace[i + 1].src = trace[i].src
          /\ trace[i + 1].outcome # "Failed" )
        => /\ trace[i + 1].outcome = "Unchanged"
           /\ DOMAIN trace[i + 1].payload = {}

\* C2: Uniqueness.  No two pages of the database carry the same date
\* (steps pages all being of the kind "Walking", sleep pages of the one
\* kind the Sleep database holds).
PageDates(p) == {p.props[c].n : c \in {k \in DOMAIN p.props : p.props[k].t = "date-str"}}

C2_OnePagePerDate ==
    entry \in {"steps", "sleep"} =>
        \A i, j \in 1..Len(pages) :
            i # j => PageDates(pages[i]) \cap PageDates(pages[j]) = {}

\* C3: Column suppression.  No pages.create or pages.update of a run names
\* a column that the database's schema lacks.
C3_WritesWithinSchema ==
    \A k \in 1..Len(calls) :
        IsWrite(calls[k]) => DOMAIN calls[k].props \subseteq Cols(schema)

\* C4 as claimed: the payload of an update holds only the fields whose
\* mapped value differs from the stored one.
C4_UpdateOnlyChangedFields ==
    \A i \in 1..Len(trace) :
        trace[i].outcome = "Updated" =>
            \A c \in DOMAIN trace[i].payload :
                ~PyEq(trace[i].before[c], trace[i].payload[c])

\* C4 as amended: an update of an existing record writes every mapped
\* field, drifted or not: the steps sync its four fixed columns with the
\* values mapped from the source record, the sleep sync the mapped props
\* (the date column and every minutes column the schema read has).
C4_UpdateWritesEveryMappedField ==
    \A i \in 1..Len(trace) :
        trace[i].outcome = "Updated" =>
            IF entry = "steps"
            THEN /\ DOMAIN trace[i].payload = StepsUpdateCols
                 /\ trace[i].payload["Total Steps"] = Get(trace[i].src, "totalSteps")
                 /\ trace[i].payload["Step Goal"] = Get(trace[i].src, "stepGoal")
                 /\ trace[i].payload["Total Distance (km)"] = DistanceKm(trace[i].src)
                 /\ trace[i].payload["Activity Type"] = RichText("Walking")
            ELSE trace[i].run = run =>
                 /\ trace[i].payload = props
                 /\ {find_date_prop(db_props)} \cup (MinuteCols \cap Cols(db_props))
                        \subseteq DOMAIN trace[i].payload

\* C4 witness: an update after the step count drifted from 8000 to 8200
\* while the goal stayed, the goal being written all the same.
C4_Witness ==
    \E i \in 1..Len(trace) :
        /\ entry = "steps" /\ trace[i].outcome = "Updated"
        /\ trace[i].before["Total Steps"] = PyInt(8000)
        /\ trace[i].payload["Total Steps"] = PyInt(8200)
        /\ trace[i].before["Step Goal"] = trace[i].payload["Step Goal"]

\* C5: Change detection symmetry.  steps_need_update never raises, and is
\* true exactly when a compared field the existing record has differs
\* from the value the mapper writes for it.
C5_NeedUpdateSymmetry ==
    \A i \in 1..Len(trace) :
        (entry = "steps" /\ trace[i].need # "n/a") =>
            /\ trace[i].need # "KeyError"
            /\ trace[i].need = "True" <=>
                 \E c \in StepsUpdateCols \cap DOMAIN trace[i].before :
                     ~PyEq(trace[i].before[c], create_daily_steps(trace[i].src)[c])

\* The primary/alias pairs of the sleep mapping, with the column each feeds
AliasPairs ==
    { <<"sleepTimeSeconds", "durationInSeconds", "Total (min)">>,
      <<"sleepStartTimestampGMT", "startTimeGMT", "Bedtime">>,
      <<"sleepEndTimestampGMT", "endTimeGMT", "Wake time">> }

\* The value the column of a pair gets from the source value v
FromField(col, v) == IF col = "Total (min)" THEN to_minutes(v) ELSE to_iso_z(v)

\* The column of a pair is mapped from the source value v: written with
\* the value derived from v, or left out when v yields none.
MappedFrom(col, v) ==
    IF has_prop(db_props, col) /\ FromField(col, v) # None
    THEN col \in DOMAIN props /\ props[col] = FromField(col, v)
    ELSE col \notin DOMAIN props

\* C6 as claimed: with both fields of a pair in the payload, the column is
\* mapped from the primary one, whatever its value.
C6_PrimaryAlwaysWins ==
    Mapped =>
        \A pair \in AliasPairs :
            {pair[1], pair[2]} \subseteq DOMAIN daily
                => MappedFrom(pair[3], daily[pair[1]])

\* C6 as amended: with both fields of a pair in the payload, the column is
\* mapped from the primary one when that is truthy (not None, 0 or ""),
\* and from the alias otherwise.
C6_PrimaryWinsWhenTruthy ==
    Mapped =>
        \A pair \in AliasPairs :
            {pair[1], pair[2]} \subseteq DOMAIN daily
                => IF Truthy(daily[pair[1]])
                   THEN MappedFrom(pair[3], daily[pair[1]])
                   ELSE MappedFrom(pair[3], daily[pair[2]])

\* C6 witness: both duration fields present, the primary one non-zero, and
\* both bedtime fields present, the primary one empty.
C6_Witness ==
    /\ Mapped
    /\ {"sleepTimeSeconds", "durationInSeconds", "sleepStartTimestampGMT",
        "startTimeGMT"} \subseteq DOMAIN daily
    /\ daily["sleepTimeSeconds"] = PyInt(90)
    /\ daily["sleepStartTimestampGMT"] = PyStr("")
    /\ {"Total (min)", "Bedtime"} \subseteq DOMAIN props

\* C7: Failure isolation.  When the step has ended and the steps or the
\* sleep script has failed in it, every script after the failed one was
\* executed all the same.
C7_SiblingsStillRun ==
    (entry = "workflow" /\ pc = "done") =>
        \A r \in 1..Len(ran) :
            (ran[r].status # 0 /\ ran[r].script \in {"daily-steps.py", "sleep_data.py"})
                => \A k \in (r + 1)..Len(Scripts) :
                       \E q \in 1..Len(ran) : ran[q].script = Scripts[k]

\* C8: Per-date containment.  A steps run in which a request to Notion
\* failed for a record still processes every record and exits with 0.
C8_PerDateFailureContained ==
    ( /\ entry = "steps" /\ pc = "done"
      /\ \E i \in 1..Len(trace) : trace[i].run = run /\ trace[i].outcome = "Failed" )
    => /\ exit_status = 0
       /\ idx > Len(daily_steps)

\* C9: Pre-flight.  With a mandatory setting of the script unset, no
\* service is called, and the process ends with a non-zero status.
Mandatory ==
    {"GARMIN_EMAIL", "GARMIN_PASSWORD", "NOTION_TOKEN"}
        \cup (IF entry = "steps" THEN {"NOTION_STEPS_DB_ID"} ELSE {"NOTION_SLEEP_DB_ID"})

C9_NoCallBeforePreflight ==
    (entry \in {"steps", "sleep"} /\ \E k \in Mandatory : ~env[k]) =>
        /\ calls = <<>>
        /\ pc = "done" => exit_status # 0

\* The source values of the sleep catalog, per column
Supplied(col) ==
    CASE col = "Total (min)" -> {"sleepTimeSeconds", "durationInSeconds"}
      [] col = "Deep (min)" -> {"deepSleepSeconds"}
      [] col = "REM (min)" -> {"remSleepSeconds"}
      [] col = "Light (min)" -> {"lightSleepSeconds"}
      [] col = "Awake (min)" -> {"awakeSleepSeconds"}
      [] col = "Score" -> {"sleepScore"}
      [] col = "Efficiency (%)" -> {"sleepEfficiency"}
      [] col = "Bedtime" -> {"sleepStartTimestampGMT", "startTimeGMT"}
      [] OTHER -> {"sleepEndTimestampGMT", "endTimeGMT"}

HasValue(col) ==
    IF col = "HRV (ms)" THEN hrv_nightly(hrv) # None
    ELSE \E k \in Supplied(col) : Truthy(Get(daily, k)) \/ IsNum(Get(daily, k))

Catalog == MinuteCols \cup {"Score", "Efficiency (%)", "Bedtime", "Wake time", "HRV (ms)"}

\* C10 as claimed: a column of the catalog is written only if the schema
\* read has it and the source supplies a value for it.
C10_WrittenOnlyIfSupplied ==
    Mapped =>
        \A col \in Catalog \ {find_date_prop(db_props)} :
            col \in DOMAIN props => has_prop(db_props, col) /\ HasValue(col)

\* C10 as amended: score, efficiency, bedtime, wake time and HRV are
\* written exactly when the schema read has the column and the source
\* supplies a value; the five minutes columns are written whenever the
\* schema read has the column, as 0 when the source supplies no duration.
C10_MinutesDefaultToZero ==
    Mapped =>
        \A col \in Catalog \ {find_date_prop(db_props)} :
            IF col \in MinuteCols
            THEN /\ col \in DOMAIN props <=> has_prop(db_props, col)
                 /\ (col \in DOMAIN props /\ ~HasValue(col)) => props[col] = PyInt(0)
            ELSE col \in DOMAIN props <=> (has_prop(db_props, col) /\ HasValue(col))

\* C10 witness: the schema read has the minutes and the score columns, the
\* source supplies neither; the minutes are written as 0, the score is not.
C10_Witness ==
    /\ Mapped
    /\ {"Deep (min)", "Score"} \subseteq Cols(db_props)
    /\ "deepSleepSeconds" \notin DOMAIN daily
    /\ "sleepScore" \notin DOMAIN daily
    /\ props["Deep (min)"] = PyInt(0)
    /\ "Score" \notin DOMAIN props

\* The schema read by this run of the sleep script
Inspected == entry = "sleep" /\ db_props # <<>>
DateTyped(p) == {i \in 1..Len(p) : p[i].type = "date"}

====
